---- MODULE Spec2Model ----
(***************************************************************************)
(* A model of src/net/curl_shim.c: the accumulating write callback         *)
(* write_cb and the one-shot request curl_shim_simple_request, together    *)
(* with the parts of the transport engine (libcurl) and of the C allocator *)
(* that the two functions call.                                            *)
(*                                                                         *)
(* Each thread t runs one call of curl_shim_simple_request, one source     *)
(* statement group per action.  The engine and the allocator are the       *)
(* environment: every outcome they can produce (handle acquisition         *)
(* failing, malloc/realloc failing or moving the block, the contents of    *)
(* fresh memory, an option being rejected, the chunking of the response,   *)
(* a transport error at any point) is a nondeterministic choice.           *)
(***************************************************************************)
EXTENDS Integers, Sequences, FiniteSets, TLC

(* ------------------------------ bounds -------------------------------- *)
\* Calls of curl_shim_simple_request that run concurrently under ConcSpec.
NThreads == 2
\* Longest response body a responder sends.
MaxBodyLen == 2
\* Longest request body (payload) a caller passes.
MaxPayloadLen == 2
\* Most invocations of the sink the engine makes during one transfer.
MaxCalls == 2

\* The byte values the model distinguishes: the zero byte and a non-zero one.
Byte == {0, 1}

(* ----------------------------- constants ------------------------------ *)
\* The null pointer.
NULL == 0
\* The values *response and *response_len hold before the call (whatever
\* the caller left there); no address and no length equals them.
PriorPtr == 0 - 1
PriorLen == 0 - 1
\* libcurl's CURLOPT_POSTFIELDSIZE default: "take strlen of the data".
SizeUnset == 0 - 1
\* CURL_HTTP_VERSION_1_1 of curl/curl.h (CURL_HTTP_VERSION_NONE is 0).
CURL_HTTP_VERSION_1_1 == 2

Threads == 1..NThreads
\* Allocations one call can make: malloc(1) and one realloc per sink call.
MaxGen == MaxCalls + 1
Addrs == 1..(NThreads * MaxGen)
Statuses == {200, 404, 500}

SeqsUpTo(S, n) == UNION {[1..k -> S] : k \in 0..n}

VARIABLES
  pc,       \* pc[t]: where thread t stands in curl_shim_simple_request
  args,     \* args[t]: the arguments of t's call
  server,   \* server[t]: the responder t's request reaches
  curl,     \* curl[t]: the local `curl` (a handle id, or NULL)
  easy,     \* easy[h]: the engine's state of handle h
  buf,      \* buf[b]: the Buffer struct at stack slot b
  heap,     \* heap[a]: the allocator's block at address a
  brk,      \* brk[t]: blocks the allocator has handed to thread t so far
  xfer,     \* xfer[t]: the engine's transfer for t: the body bytes handed
            \* to the sink and accepted, and the state of the connection
  res,      \* res[t]: the local `res`, then the call's return value
  out,      \* out[t]: the caller's *response and *response_len
  slist,    \* slist[l]: header list l, and the releases made of it
  log,      \* log[t]: the engine and allocator calls t made, in order
  calls     \* calls[t]: the sink invocations of t's perform: how many, the
            \* bytes they were given, and the last one's chunk and result

vars == <<pc, args, server, curl, easy, buf, heap, brk, xfer, res, out,
          slist, log, calls>>


(* ----------------------------- the allocator -------------------------- *)
\* A block that was never handed out, or was released.
NoBlock(st) == [st |-> st, bytes |-> << >>]

\* malloc(n) succeeding at address a: n bytes of indeterminate content
\* (fill is the value the bytes happen to hold).
Malloc(hp, a, n, fill) ==
  [hp EXCEPT ![a] = [st |-> "live", bytes |-> [i \in 1..n |-> fill]]]

\* free(p); free(NULL) does nothing.
Free(hp, p) ==
  IF p = NULL THEN hp ELSE [hp EXCEPT ![p] = NoBlock("freed")]

\* The first n bytes of old, padded with fill where old is shorter.
Resized(old, n, fill) ==
  [i \in 1..n |-> IF i <= Len(old) THEN old[i] ELSE fill]

\* realloc(p, n).  alloc is what the allocator does: "fail" returns NULL and
\* leaves the block at p as it is, "inplace" resizes the block where it is,
\* "move" copies it to the fresh address a and releases p.  realloc(NULL, n)
\* is malloc(n).
Realloc(hp, p, n, alloc, a, fill) ==
  IF alloc = "fail" THEN [ptr |-> NULL, heap |-> hp]
  ELSE IF p = NULL THEN [ptr |-> a, heap |-> Malloc(hp, a, n, fill)]
  ELSE IF alloc = "inplace"
    THEN [ptr |-> p,
          heap |-> [hp EXCEPT ![p].bytes = Resized(hp[p].bytes, n, fill)]]
    ELSE [ptr |-> a,
          heap |-> [Free(hp, p) EXCEPT
                      ![a] = [st |-> "live",
                              bytes |-> Resized(hp[p].bytes, n, fill)]]]

\* The address the allocator hands to thread t next.
NewAddr(t) == (t - 1) * MaxGen + brk[t] + 1

\* strlen(s) of the memory holding the bytes `bytes` followed by the
\* terminator the caller put after them: the index of the first zero byte.
Strlen(bytes) ==
  LET mem == bytes \o <<0>>
  IN (CHOOSE i \in 1..Len(mem) :
         mem[i] = 0 /\ \A j \in 1..(i - 1) : mem[j] # 0) - 1

(* ------------------------------- write_cb ----------------------------- *)
\* write_cb with the chunk copied to the start of the buffer:
\* memcpy(mem->data, ptr, realsize).
write_cb_CopiesToStart(hp, bf, chunk, size, nmemb, userdata, alloc, a, fill) ==
  LET realsize == size * nmemb
      mem      == bf[userdata]
      r        == Realloc(hp, mem.data, mem.size + realsize + 1, alloc, a, fill)
  IN IF r.ptr = NULL
       THEN [ret |-> 0, heap |-> hp, buf |-> bf]
       ELSE LET old     == r.heap[r.ptr].bytes
                copied  == [i \in 1..Len(old) |->
                              IF i <= realsize THEN chunk[i] ELSE old[i]]
                newsize == mem.size + realsize
                ended   == [copied EXCEPT ![newsize + 1] = 0]
            IN [ret  |-> realsize,
                heap |-> [r.heap EXCEPT ![r.ptr].bytes = ended],
                buf  |-> [bf EXCEPT ![userdata] =
                            [data |-> r.ptr, size |-> newsize]]]

\* write_cb with the result of realloc stored before it is tested:
\* mem->data = realloc(mem->data, ...); if (!mem->data) return 0;
write_cb_AssignsRealloc(hp, bf, chunk, size, nmemb, userdata, alloc, a, fill) ==
  LET realsize == size * nmemb
      mem      == bf[userdata]
      r        == Realloc(hp, mem.data, mem.size + realsize + 1, alloc, a, fill)
  IN IF r.ptr = NULL
       THEN [ret |-> 0, heap |-> hp,
             buf |-> [bf EXCEPT ![userdata].data = NULL]]
       ELSE LET old     == r.heap[r.ptr].bytes
                copied  == [i \in 1..Len(old) |->
                              IF mem.size < i /\ i <= mem.size + realsize
                                THEN chunk[i - mem.size] ELSE old[i]]
                newsize == mem.size + realsize
                ended   == [copied EXCEPT ![newsize + 1] = 0]
            IN [ret  |-> realsize,
                heap |-> [r.heap EXCEPT ![r.ptr].bytes = ended],
                buf  |-> [bf EXCEPT ![userdata] =
                            [data |-> r.ptr, size |-> newsize]]]

\* write_cb(ptr, size, nmemb, userdata) on the heap hp and the Buffer
\* structs bf, where ptr points at the bytes `chunk`; alloc, a and fill are
\* the allocator's choices for the realloc.  Yields the return value and
\* the heap and the Buffer structs after the call.
write_cb(hp, bf, chunk, size, nmemb, userdata, alloc, a, fill) ==
  LET realsize == size * nmemb
      mem      == bf[userdata]
      r        == Realloc(hp, mem.data, mem.size + realsize + 1, alloc, a, fill)
  IN IF r.ptr = NULL
       THEN [ret |-> 0, heap |-> hp, buf |-> bf]
       ELSE LET old     == r.heap[r.ptr].bytes
                copied  == [i \in 1..Len(old) |->
                              IF mem.size < i /\ i <= mem.size + realsize
                                THEN chunk[i - mem.size] ELSE old[i]]
                newsize == mem.size + realsize
                ended   == [copied EXCEPT ![newsize + 1] = 0]
            IN [ret  |-> realsize,
                heap |-> [r.heap EXCEPT ![r.ptr].bytes = ended],
                buf  |-> [bf EXCEPT ![userdata] =
                            [data |-> r.ptr, size |-> newsize]]]

(* ------------------------------ the engine ---------------------------- *)
Options == {"URL", "CUSTOMREQUEST", "HTTPHEADER", "POSTFIELDS",
            "POSTFIELDSIZE", "WRITEFUNCTION", "WRITEDATA", "NOSIGNAL",
            "HTTP_VERSION", "SSL_VERIFYPEER", "SSL_VERIFYHOST"}

\* The options whose setting copies a string and so can be refused (out of
\* memory, or a string too long); the others store a pointer or a valid
\* number and cannot.
Rejectable == {"URL", "CUSTOMREQUEST"}
NoOption == "none"

\* A handle as curl_easy_init returns it.
FreshHandle ==
  [st |-> "live",
   opt |-> [o \in Options |->
              CASE o = "URL" -> ""
                [] o = "CUSTOMREQUEST" -> ""
                [] o = "HTTPHEADER" -> NULL
                [] o = "POSTFIELDS" -> << >>
                [] o = "POSTFIELDSIZE" -> SizeUnset
                [] o = "WRITEFUNCTION" -> "fwrite"
                [] o = "WRITEDATA" -> NULL
                [] o = "NOSIGNAL" -> 0
                [] o = "HTTP_VERSION" -> 0
                [] o = "SSL_VERIFYPEER" -> 1
                [] o = "SSL_VERIFYHOST" -> 2],
   rejected |-> {},
   response_code |-> 0]
NoHandle == [FreshHandle EXCEPT !.st = "none"]

\* curl_easy_setopt(handle, option, value): the handle after the call.  The
\* engine accepts the value, or rejects it and leaves the option as it was;
\* `rejected` records the calls that returned an error.
curl_easy_setopt(e, option, value, accepted) ==
  IF accepted THEN [e EXCEPT !.opt[option] = value]
              ELSE [e EXCEPT !.rejected = @ \cup {option}]

\* curl_shim_getinfo_long(handle, CURLINFO_RESPONSE_CODE, &value): the value.
curl_shim_getinfo_long(e) == e.response_code

\* The request body the engine puts on the wire for handle e: the first
\* POSTFIELDSIZE bytes at POSTFIELDS.
Transmitted(e) ==
  IF e.opt["POSTFIELDSIZE"] = SizeUnset THEN << >>
  ELSE SubSeq(e.opt["POSTFIELDS"], 1, e.opt["POSTFIELDSIZE"])

\* curl_easy_perform on a handle with CURLOPT_FAILONERROR set: a status of
\* 400 or more is an error.
PerformResult_FailOnError(link, status) ==
  CASE link = "complete" /\ status < 400 -> "CURLE_OK"
    [] link = "complete" /\ status >= 400 -> "CURLE_HTTP_RETURNED_ERROR"
    [] link = "nourl"    -> "CURLE_URL_MALFORMAT"
    [] link = "refused"  -> "CURLE_COULDNT_CONNECT"
    [] link = "sink"     -> "CURLE_WRITE_ERROR"
    [] OTHER             -> "CURLE_RECV_ERROR"

\* What curl_easy_perform returns for a transfer that ended in state `link`
\* with the responder's status `status`.  The code sets no option (such as
\* CURLOPT_FAILONERROR) that would make the status count.
PerformResult(link, status) ==
  CASE link = "complete" -> "CURLE_OK"
    [] link = "nourl"    -> "CURLE_URL_MALFORMAT"
    [] link = "refused"  -> "CURLE_COULDNT_CONNECT"
    [] link = "sink"     -> "CURLE_WRITE_ERROR"
    [] OTHER             -> "CURLE_RECV_ERROR"

(* ------------------------ curl_shim_simple_request -------------------- *)
\* `static Buffer buf;`: one Buffer shared by every call.
BufAddr_Static(t) == 1

\* The stack slot of the local `Buffer buf` of thread t's call.
BufAddr(t) == t

\* The header list thread t's caller built for the call.
ListOf(t) == t

Logged(t, op, arg) ==
  log' = [log EXCEPT ![t] = Append(@, [op |-> op, arg |-> arg])]

\* The buffer freed whatever perform returned: free(buf.data) after the if.
Finish_FreesHandedBuffer(t) ==
  /\ pc[t] = "finish"
  /\ out' = IF res[t] = "CURLE_OK"
              THEN [out EXCEPT ![t] =
                      [response |-> buf[BufAddr(t)].data,
                       response_len |-> buf[BufAddr(t)].size]]
              ELSE out
  /\ heap' = Free(heap, buf[BufAddr(t)].data)
  /\ Logged(t, "free", buf[BufAddr(t)].data)
  /\ pc' = [pc EXCEPT ![t] = "cleanup"]
  /\ UNCHANGED <<args, server, curl, easy, buf, brk, xfer, res, slist, calls>>

\* The header list released by the request itself:
\* curl_slist_free_all(headers) before the return.
Cleanup_ReleasesHeaders(t) ==
  /\ pc[t] = "cleanup"
  /\ easy' = [easy EXCEPT ![curl[t]].st = "closed"]
  /\ Logged(t, "cleanup", curl[t])
  /\ slist' = IF args[t].headers # NULL
                THEN [slist EXCEPT ![args[t].headers] =
                        [live |-> FALSE, frees |-> @.frees + 1]]
                ELSE slist
  /\ pc' = [pc EXCEPT ![t] = "returned"]
  /\ UNCHANGED <<args, server, curl, buf, heap, brk, xfer, res, out, calls>>

\* The handle released on the success path only: the failure branch
\* returning res right after free(buf.data).
Cleanup_OnSuccessOnly(t) ==
  /\ pc[t] = "cleanup"
  /\ IF res[t] = "CURLE_OK"
       THEN /\ easy' = [easy EXCEPT ![curl[t]].st = "closed"]
            /\ Logged(t, "cleanup", curl[t])
       ELSE UNCHANGED <<easy, log>>
  /\ pc' = [pc EXCEPT ![t] = "returned"]
  /\ UNCHANGED <<args, server, curl, buf, heap, brk, xfer, res, out, slist,
                 calls>>

\* CURL *curl = curl_easy_init(); if (!curl) return CURLE_FAILED_INIT;
EasyInit(t) ==
  /\ pc[t] = "idle"
  /\ \E ok \in BOOLEAN :
       IF ok
         THEN /\ curl' = [curl EXCEPT ![t] = t]
              /\ easy' = [easy EXCEPT ![t] = FreshHandle]
              /\ pc' = [pc EXCEPT ![t] = "alloc"]
              /\ Logged(t, "easy_init", t)
              /\ res' = res
         ELSE /\ curl' = [curl EXCEPT ![t] = NULL]
              /\ easy' = easy
              /\ res' = [res EXCEPT ![t] = "CURLE_FAILED_INIT"]
              /\ pc' = [pc EXCEPT ![t] = "returned"]
              /\ Logged(t, "easy_init", NULL)
  /\ UNCHANGED <<args, server, buf, heap, brk, xfer, out, slist, calls>>

\* Buffer buf; buf.data = malloc(1); buf.size = 0;
AllocBuf(t) ==
  /\ pc[t] = "alloc"
  /\ \E ok \in BOOLEAN, fill \in Byte :
       LET a == NewAddr(t)
       IN IF ok
            THEN /\ heap' = Malloc(heap, a, 1, fill)
                 /\ brk' = [brk EXCEPT ![t] = @ + 1]
                 /\ buf' = [buf EXCEPT ![BufAddr(t)] = [data |-> a, size |-> 0]]
                 /\ Logged(t, "malloc", a)
            ELSE /\ fill = 0
                 /\ heap' = heap
                 /\ brk' = brk
                 /\ buf' = [buf EXCEPT ![BufAddr(t)] = [data |-> NULL, size |-> 0]]
                 /\ Logged(t, "malloc", NULL)
  /\ pc' = [pc EXCEPT ![t] = "config"]
  /\ UNCHANGED <<args, server, curl, easy, xfer, res, out, slist, calls>>

\* The fourteen lines of curl_easy_setopt calls, in source order, none of
\* whose return values is read.  rej is the option the engine rejects, if any.
Configured(e, a, t, rej) ==
  LET e1 == curl_easy_setopt(e, "URL", a.url, rej # "URL")
      e2 == curl_easy_setopt(e1, "CUSTOMREQUEST", a.method,
                             rej # "CUSTOMREQUEST")
      e3 == IF a.headers # NULL
              THEN curl_easy_setopt(e2, "HTTPHEADER", a.headers,
                                    rej # "HTTPHEADER")
              ELSE e2
      e4 == IF a.hasPayload
              THEN LET p1 == curl_easy_setopt(e3, "POSTFIELDS",
                                 a.payload \o <<0>>, rej # "POSTFIELDS")
                   IN curl_easy_setopt(p1, "POSTFIELDSIZE",
                                 Strlen(a.payload), rej # "POSTFIELDSIZE")
              ELSE e3
      e5 == curl_easy_setopt(e4, "WRITEFUNCTION", "write_cb",
                             rej # "WRITEFUNCTION")
      e6 == curl_easy_setopt(e5, "WRITEDATA", BufAddr(t), rej # "WRITEDATA")
      e7 == curl_easy_setopt(e6, "NOSIGNAL", 1, rej # "NOSIGNAL")
      e8 == curl_easy_setopt(e7, "HTTP_VERSION", CURL_HTTP_VERSION_1_1,
                             rej # "HTTP_VERSION")
      e9 == curl_easy_setopt(e8, "SSL_VERIFYPEER", 1, rej # "SSL_VERIFYPEER")
  IN curl_easy_setopt(e9, "SSL_VERIFYHOST", 2, rej # "SSL_VERIFYHOST")

Configure(t) ==
  /\ pc[t] = "config"
  /\ \E rej \in Rejectable \cup {NoOption} :
       easy' = [easy EXCEPT ![curl[t]] = Configured(@, args[t], t, rej)]
  /\ pc' = [pc EXCEPT ![t] = "perform"]
  /\ UNCHANGED <<args, server, curl, buf, heap, brk, xfer, res, out, slist,
                 log, calls>>

\* CURLcode res = curl_easy_perform(curl): the engine starts the transfer.
\* A handle without a URL is refused at once; otherwise the engine fails to
\* reach the responder, or receives the response head (the status).
PerformBegin(t) ==
  /\ pc[t] = "perform"
  /\ Logged(t, "perform", curl[t])
  /\ IF easy[curl[t]].opt["URL"] = ""
       THEN /\ xfer' = [xfer EXCEPT ![t].link = "nourl"]
            /\ res' = [res EXCEPT ![t] = PerformResult("nourl", 0)]
            /\ pc' = [pc EXCEPT ![t] = "finish"]
            /\ easy' = easy
       ELSE \E connected \in BOOLEAN :
              IF connected
                THEN /\ easy' = [easy EXCEPT ![curl[t]].response_code =
                                   server[t].status]
                     /\ xfer' = [xfer EXCEPT ![t].link = "open"]
                     /\ pc' = [pc EXCEPT ![t] = "inflight"]
                     /\ res' = res
                ELSE /\ xfer' = [xfer EXCEPT ![t].link = "refused"]
                     /\ res' = [res EXCEPT ![t] = PerformResult("refused", 0)]
                     /\ pc' = [pc EXCEPT ![t] = "finish"]
                     /\ easy' = easy
  /\ UNCHANGED <<args, server, curl, buf, heap, brk, out, slist, calls>>

\* The engine hands the next n bytes of the response body to the sink the
\* handle names, write_cb(ptr, 1, n, WRITEDATA), and aborts the transfer
\* with CURLE_WRITE_ERROR when the sink returns anything but n.
Deliver(t) ==
  /\ pc[t] = "inflight"
  /\ calls[t].n < MaxCalls
  /\ \E n \in 0..(Len(server[t].body) - xfer[t].pos),
        alloc \in {"fail", "inplace", "move"}, fill \in Byte :
       LET chunk == SubSeq(server[t].body, xfer[t].pos + 1, xfer[t].pos + n)
           r == write_cb(heap, buf, chunk, 1, n,
                         easy[curl[t]].opt["WRITEDATA"], alloc, NewAddr(t), fill)
       IN /\ heap' = r.heap
          /\ buf' = r.buf
          /\ brk' = [brk EXCEPT ![t] =
                       IF heap[NewAddr(t)] # r.heap[NewAddr(t)] THEN @ + 1 ELSE @]
          /\ calls' = [calls EXCEPT ![t] =
                         [n |-> @.n + 1, fed |-> @.fed \o chunk,
                          len |-> n, ret |-> r.ret,
                          failed |-> alloc = "fail",
                          anyFailed |-> @.anyFailed \/ alloc = "fail"]]
          /\ IF r.ret = n
               THEN /\ xfer' = [xfer EXCEPT ![t].pos = @ + n]
                    /\ pc' = pc
                    /\ res' = res
               ELSE /\ xfer' = [xfer EXCEPT ![t].link = "sink"]
                    /\ pc' = [pc EXCEPT ![t] = "finish"]
                    /\ res' = [res EXCEPT ![t] =
                                 PerformResult("sink", server[t].status)]
  /\ UNCHANGED <<args, server, curl, easy, out, slist, log>>

\* curl_easy_perform returns: CURLE_OK once the whole body was delivered, or
\* a transport error (the connection breaking) at any point of the transfer.
PerformEnd(t) ==
  /\ pc[t] = "inflight"
  /\ \/ /\ xfer[t].pos = Len(server[t].body)
        /\ xfer' = [xfer EXCEPT ![t].link = "complete"]
     \/ xfer' = [xfer EXCEPT ![t].link = "broken"]
  /\ res' = [res EXCEPT ![t] = PerformResult(xfer'[t].link, server[t].status)]
  /\ pc' = [pc EXCEPT ![t] = "finish"]
  /\ UNCHANGED <<args, server, curl, easy, buf, heap, brk, out, slist,
                 log, calls>>

\* if (res == CURLE_OK) { *response = buf.data; *response_len = buf.size; }
\* else { free(buf.data); }
Finish(t) ==
  /\ pc[t] = "finish"
  /\ IF res[t] = "CURLE_OK"
       THEN /\ out' = [out EXCEPT ![t] =
                         [response |-> buf[BufAddr(t)].data,
                          response_len |-> buf[BufAddr(t)].size]]
            /\ UNCHANGED <<heap, log>>
       ELSE /\ heap' = Free(heap, buf[BufAddr(t)].data)
            /\ Logged(t, "free", buf[BufAddr(t)].data)
            /\ out' = out
  /\ pc' = [pc EXCEPT ![t] = "cleanup"]
  /\ UNCHANGED <<args, server, curl, easy, buf, brk, xfer, res, slist, calls>>

\* curl_easy_cleanup(curl); return res;
Cleanup(t) ==
  /\ pc[t] = "cleanup"
  /\ easy' = [easy EXCEPT ![curl[t]].st = "closed"]
  /\ Logged(t, "cleanup", curl[t])
  /\ pc' = [pc EXCEPT ![t] = "returned"]
  /\ UNCHANGED <<args, server, curl, buf, heap, brk, xfer, res, out, slist,
                 calls>>

\* curl_shim_slist_free_all(list): the caller releases the header list it
\* built, after the request returned.
SlistFreeAll(t) ==
  /\ pc[t] = "returned"
  /\ args[t].headers # NULL
  /\ slist[args[t].headers].live
  /\ slist' = [slist EXCEPT ![args[t].headers] =
                 [live |-> FALSE, frees |-> @.frees + 1]]
  /\ pc' = [pc EXCEPT ![t] = "done"]
  /\ UNCHANGED <<args, server, curl, easy, buf, heap, brk, xfer, res, out,
                 log, calls>>

(* ---------------------------- specifications -------------------------- *)
\* The requests a caller makes: a URL, a method, an optional body of any
\* bytes (zero bytes included), an optional header list.
Requests(t) ==
  { [url |-> "http://host/", method |-> IF hp THEN "POST" ELSE "GET",
     hasPayload |-> hp, payload |-> p, headers |-> h] :
       hp \in BOOLEAN, p \in SeqsUpTo(Byte, MaxPayloadLen),
       h \in {NULL, ListOf(t)} } \
  { a \in [url : {"http://host/"}, method : {"GET"}, hasPayload : {FALSE},
           payload : SeqsUpTo(Byte, MaxPayloadLen),
           headers : {NULL, ListOf(t)}] : a.payload # << >> }

\* The responders: any status, any body.
Responders == [status : Statuses, body : SeqsUpTo(Byte, MaxBodyLen)]

\* No sink invocation yet.
NoCalls ==
  [n |-> 0, fed |-> << >>, len |-> 0, ret |-> 0, failed |-> FALSE,
   anyFailed |-> FALSE]

Start(running, a, s) ==
  /\ pc = [t \in Threads |-> IF t \in running THEN "idle" ELSE "off"]
  /\ args = a
  /\ server = s
  /\ curl = [t \in Threads |-> NULL]
  /\ easy = [t \in Threads |-> NoHandle]
  /\ buf = [t \in Threads |-> [data |-> NULL, size |-> 0]]
  /\ heap = [a1 \in Addrs |-> NoBlock("unused")]
  /\ brk = [t \in Threads |-> 0]
  /\ xfer = [t \in Threads |-> [pos |-> 0, link |-> "idle"]]
  /\ res = [t \in Threads |-> "none"]
  /\ out = [t \in Threads |-> [response |-> PriorPtr, response_len |-> PriorLen]]
  /\ slist = [t \in Threads |->
                [live |-> t \in running /\ a[t].headers # NULL, frees |-> 0]]
  /\ log = [t \in Threads |-> << >>]
  /\ calls = [t \in Threads |-> NoCalls]

\* A thread that makes no call.
NoRequest ==
  [url |-> "", method |-> "GET", hasPayload |-> FALSE, payload |-> << >>,
   headers |-> NULL]
NoResponder == [status |-> 200, body |-> << >>]

\* One call: any request to a responder that answers 200 with one byte, or
\* a request without a body to any responder.
Init ==
  \E a \in Requests(1), s \in Responders :
    /\ \/ s = [status |-> 200, body |-> <<1>>]
       \/ ~a.hasPayload
    /\ Start({1}, [t \in Threads |-> IF t = 1 THEN a ELSE NoRequest],
                  [t \in Threads |-> IF t = 1 THEN s ELSE NoResponder])

Next ==
  \E t \in Threads :
    \/ EasyInit(t)
    \/ AllocBuf(t)
    \/ Configure(t)
    \/ PerformBegin(t)
    \/ Deliver(t)
    \/ PerformEnd(t)
    \/ Finish(t)
    \/ Cleanup(t)
    \/ SlistFreeAll(t)

Spec == Init /\ [][Next]_vars

\* NThreads calls at once, each with its own request and its own responder,
\* which sends a body no other responder sends.
ConcRequest == [NoRequest EXCEPT !.url = "http://host/"]
ConcResponder(t) ==
  [status |-> IF t % 2 = 1 THEN 200 ELSE 500, body |-> <<t, t>>]

ConcInit ==
  Start(Threads, [t \in Threads |-> ConcRequest],
                 [t \in Threads |-> ConcResponder(t)])

\* The steps of the calls, interleaved in any order.  The faults left to the
\* environment here are a handle not being acquired and the ones that strike
\* during a transfer: a realloc failing or moving the block, and the
\* connection breaking; every chunk holds at least one byte.
ConcNext ==
  \E t \in Threads :
    \/ EasyInit(t)
    \/ AllocBuf(t) /\ heap'[NewAddr(t)].bytes = <<0>>
    \/ Configure(t) /\ easy'[curl[t]].rejected = {}
    \/ PerformBegin(t) /\ pc'[t] = "inflight"
    \/ Deliver(t) /\ calls'[t].len > 0
    \/ PerformEnd(t)
    \/ Finish(t)
    \/ Cleanup(t)

ConcSpec == ConcInit /\ [][ConcNext]_vars

(* -------------------------------- claims ------------------------------ *)
OK == "CURLE_OK"
Returned(t) == pc[t] \in {"returned", "done"}
\* Thread t is past the if/else that follows perform.
PastFinish(t) == pc[t] \in {"cleanup", "returned", "done"}
Untouched(t) == out[t] = [response |-> PriorPtr, response_len |-> PriorLen]
Entries(t, op) == SelectSeq(log[t], LAMBDA e : e.op = op)
\* The first index of an entry of log[t] with operation op (0: none).
IndexOf(t, op) ==
  IF Entries(t, op) = << >> THEN 0
  ELSE CHOOSE i \in 1..Len(log[t]) :
         log[t][i].op = op /\ \A j \in 1..(i - 1) : log[t][j].op # op
\* The local Buffer of thread t's call.
MyBuf(t) == buf[BufAddr(t)]
\* The first n bytes of the block at p (nothing at NULL).
Content(p, n) == IF p = NULL THEN << >> ELSE SubSeq(heap[p].bytes, 1, n)

\* C1: a call that acquired a handle ends its response buffer in exactly
\* one of two ways.  If perform returned CURLE_OK, the final buf.data and
\* buf.size are in *response and *response_len and free was never called
\* (the block is live).  If perform returned an error, free was called
\* exactly once, on the final buf.data (the block is released), and
\* *response and *response_len hold what they held before the call.  Before
\* the if/else ran, nothing was freed and nothing was written.
C1_BufferHandedOrFreed ==
  \A t \in Threads :
    /\ ~PastFinish(t) => Entries(t, "free") = << >> /\ Untouched(t)
    /\ PastFinish(t) /\ curl[t] # NULL /\ res[t] = OK =>
         /\ out[t] = [response |-> MyBuf(t).data,
                      response_len |-> MyBuf(t).size]
         /\ Entries(t, "free") = << >>
         /\ MyBuf(t).data # NULL => heap[MyBuf(t).data].st = "live"
    /\ PastFinish(t) /\ curl[t] # NULL /\ res[t] # OK =>
         /\ Untouched(t)
         /\ Entries(t, "free") = <<[op |-> "free", arg |-> MyBuf(t).data]>>
         /\ MyBuf(t).data # NULL => heap[MyBuf(t).data].st = "freed"

\* C1 witness: a call returned a transport error after the sink had
\* accumulated bytes in a block the allocator had moved.
C1_Witness ==
  /\ pc[1] = "returned"
  /\ res[1] = "CURLE_RECV_ERROR"
  /\ MyBuf(1).size > 0
  /\ MyBuf(1).data # NULL
  /\ Len(Entries(1, "malloc")) = 1 /\ MyBuf(1).data # Entries(1, "malloc")[1].arg

C3_HandleReleasedOnce ==
  \A t \in Threads :
    /\ log[t] # << >> /\ curl[t] = NULL =>
         /\ Returned(t)
         /\ res[t] = "CURLE_FAILED_INIT"
         /\ log[t] = <<[op |-> "easy_init", arg |-> NULL]>>
         /\ brk[t] = 0
         /\ MyBuf(t) = [data |-> NULL, size |-> 0]
         /\ Untouched(t)
    /\ curl[t] # NULL /\ ~Returned(t) =>
         /\ Entries(t, "cleanup") = << >>
         /\ easy[curl[t]].st = "live"
    /\ curl[t] # NULL /\ Returned(t) =>
         /\ Entries(t, "cleanup") = <<[op |-> "cleanup", arg |-> curl[t]]>>
         /\ easy[curl[t]].st = "closed"
         /\ Len(Entries(t, "perform")) = 1
         /\ IndexOf(t, "perform") < IndexOf(t, "cleanup")
         /\ xfer[t].link \notin {"idle", "open"}
         /\ res[t] # "none"

\* C3 witness: a call that acquired a handle returned a transport error,
\* the handle released after the perform.
C3_Witness ==
  /\ pc[1] = "returned"
  /\ curl[1] # NULL
  /\ res[1] = "CURLE_COULDNT_CONNECT"
  /\ easy[curl[1]].st = "closed"

\* C4: while every allocation of the sink succeeded, the accumulated size
\* is the sum of the lengths of the chunks fed (the length of their
\* concatenation), the first `size` bytes of the data are the chunks
\* concatenated in call order, and the last sink call returned the length
\* of the chunk it was given.
C4_SinkConcatenates ==
  \A t \in Threads :
    /\ pc[t] \in {"inflight", "finish"} \/ (PastFinish(t) /\ res[t] = OK)
    /\ curl[t] # NULL
    /\ ~calls[t].anyFailed
    => /\ MyBuf(t).size = Len(calls[t].fed)
       /\ Content(MyBuf(t).data, MyBuf(t).size) = calls[t].fed
       /\ calls[t].n > 0 => MyBuf(t).data # NULL
       /\ calls[t].ret = calls[t].len

\* C4 witness: two chunks of one byte each were fed, a non-zero byte and
\* then a zero byte.
C4_Witness ==
  /\ pc[1] = "inflight"
  /\ calls[1].n = 2
  /\ calls[1].len = 1
  /\ calls[1].fed = <<1, 0>>
  /\ ~calls[1].anyFailed

\* C5 as stated: the body length configured on the handle is the body's
\* exact byte length, and the bytes the engine transmits are the whole body.
C5_Original ==
  \A t \in Threads :
    /\ pc[t] \in {"perform", "inflight", "finish"}
    /\ args[t].hasPayload
    => /\ easy[curl[t]].opt["POSTFIELDSIZE"] = Len(args[t].payload)
       /\ Transmitted(easy[curl[t]]) = args[t].payload

C7_Original ==
  \A t \in Threads :
    Entries(t, "perform") # << >> => easy[curl[t]].rejected = {}

\* C8: with the calls interleaved in any order, each call's buffer holds
\* the bytes its own responder sent and its own sink accepted, and nothing
\* else; each call returns what its own transfer came to; a call that
\* returned CURLE_OK hands out its own responder's whole body in a block
\* that stays live whatever the other calls do; a call that failed wrote
\* nothing and freed its own block once; no two calls share a handle, a
\* Buffer or a block.
C8_CallsAreIsolated ==
  \A t \in Threads :
    /\ MyBuf(t).size = xfer[t].pos
    /\ pc[t] \in {"inflight", "finish"} \/ (PastFinish(t) /\ res[t] = OK) =>
         /\ MyBuf(t).data # NULL
         /\ heap[MyBuf(t).data].st = "live"
         /\ Content(MyBuf(t).data, MyBuf(t).size) =
              SubSeq(server[t].body, 1, xfer[t].pos)
    /\ PastFinish(t) /\ curl[t] # NULL =>
         /\ xfer[t].link = "complete" => res[t] = OK
         /\ xfer[t].link = "broken" => res[t] = "CURLE_RECV_ERROR"
         /\ xfer[t].link = "sink" => res[t] = "CURLE_WRITE_ERROR"
    /\ PastFinish(t) /\ res[t] = OK =>
         /\ out[t].response_len = Len(server[t].body)
         /\ Content(out[t].response, out[t].response_len) = server[t].body
    /\ PastFinish(t) /\ curl[t] # NULL /\ res[t] # OK =>
         /\ Untouched(t)
         /\ Entries(t, "free") = <<[op |-> "free", arg |-> MyBuf(t).data]>>
         /\ heap[MyBuf(t).data].st = "freed"
    /\ \A u \in Threads \ {t} :
         /\ curl[t] # NULL => curl[t] # curl[u]
         /\ MyBuf(t).data # NULL => MyBuf(t).data # MyBuf(u).data
         /\ curl[t] # NULL /\ curl[u] # NULL /\ pc[t] \notin {"alloc", "config"}
              /\ pc[u] \notin {"alloc", "config"} =>
              easy[curl[t]].opt["WRITEDATA"] # easy[curl[u]].opt["WRITEDATA"]

\* C8 witness: one call returned a transport error after its sink had
\* accepted a chunk, and another call returned CURLE_OK with its whole body
\* delivered in two chunks.
C8_Witness ==
  \E t, u \in Threads :
    /\ t # u
    /\ pc[t] = "returned" /\ res[t] = "CURLE_RECV_ERROR" /\ calls[t].n = 1
    /\ pc[u] = "returned" /\ res[u] = OK /\ calls[u].n = 2
    /\ out[u].response_len = 2

\* A sink call whose allocation failed returned 0 and left every Buffer and
\* every block as it was.
C9_Step ==
  \A t \in Threads :
    calls'[t].n = calls[t].n + 1 /\ calls'[t].failed =>
      /\ calls'[t].ret = 0
      /\ buf' = buf
      /\ heap' = heap

\* After a sink call whose allocation failed on a non-empty chunk the
\* transfer is over with CURLE_WRITE_ERROR, and once the if/else ran the
\* call wrote nothing to the caller and freed the accumulated block once.
C9_After ==
  \A t \in Threads :
    calls[t].failed /\ calls[t].len > 0 =>
      /\ pc[t] # "inflight"
      /\ xfer[t].link = "sink"
      /\ res[t] = "CURLE_WRITE_ERROR"
      /\ PastFinish(t) =>
           /\ Untouched(t)
           /\ Entries(t, "free") = <<[op |-> "free", arg |-> MyBuf(t).data]>>
           /\ MyBuf(t).data # NULL => heap[MyBuf(t).data].st = "freed"

\* C9: when the allocation inside a sink call fails, the sink returns 0 and
\* leaves the accumulator's data pointer, contents and length as they were;
\* for a non-empty chunk the engine aborts the transfer, and the call
\* returns a transport error with the accumulated buffer freed exactly
\* once, never CURLE_OK.
C9_SinkFailureAborts == [][C9_Step]_vars /\ []C9_After

\* C9 witness: the sink had accumulated bytes, its allocation then failed
\* on a non-empty chunk, and the call returned CURLE_WRITE_ERROR.
C9_Witness ==
  /\ pc[1] = "returned"
  /\ calls[1].failed
  /\ calls[1].len > 0
  /\ MyBuf(1).size > 0
  /\ res[1] = "CURLE_WRITE_ERROR"

\* C10 as stated: on every successful return *response is a non-null
\* buffer whose byte at index *response_len is the zero terminator.
C10_Original ==
  \A t \in Threads :
    Returned(t) /\ res[t] = OK =>
      /\ out[t].response # NULL
      /\ heap[out[t].response].bytes[out[t].response_len + 1] = 0

====
